---------------------------- MODULE Spec2Model ----------------------------
(***************************************************************************)
(* A model of dicom2nifti/convert_generic.py: the conversion of one DICOM  *)
(* series to a volume (dicom_to_nifti), its three slice filters and the    *)
(* split-and-resample conversion of a series whose slice increment is not  *)
(* consistent.                                                             *)
(*                                                                         *)
(* Numbers are fixed point.  A position is a triple of integers in tenths  *)
(* of a millimetre, a direction cosine an integer in thousandths, a norm   *)
(* an integer in 1e-5 position units (1e-6 mm).                            *)
(***************************************************************************)
EXTENDS Integers, Sequences, FiniteSets, TLC

VARIABLES
    settings,                     \* dicom2nifti.settings: the flags read so far and their values
    arg,                          \* the list the function under study was called with
    dicom_input,                  \* dicom_to_nifti's local variable dicom_input
    output_file,                  \* dicom_to_nifti's argument output_file, "unread" until line 88
    pc,                           \* the position in the function under study
    stages,                       \* the stages of dicom_to_nifti that have run, in order
    error,                        \* the exception raised, "" when none
    slice_increment_inconsistent, \* the local flag of lines 63-68
    assembled,                    \* the slice runs handed to get_volume_pixeldata / create_affine
    nii_image,                    \* the volume built, NoImage before
    max_slice_increment,          \* the reported maximum (1e-6 mm)
    disk,                         \* the destination file: "absent" or "written"
    filtered_dicoms,              \* the list a filter called on its own returned
    split                         \* what _convert_slice_incement_inconsistencies computed

vars == <<settings, arg, dicom_input, output_file, pc, stages, error,
          slice_increment_inconsistent, assembled, nii_image,
          max_slice_increment, disk, filtered_dicoms, split>>

---------------------------------------------------------------------------
\* Bounds of the model.

\* The longest series handed to dicom_to_nifti.
MaxLen == 4
\* The longest series of slices that differ in orientation only (filters).
MaxOrientLen == 8
\* The longest series of slices that differ in position, pixels and image type (filters).
MaxMixedLen == 4
\* The longest sorted series handed to the splitter on its own.
MaxSplitLen == 5

---------------------------------------------------------------------------
\* Vectors and numpy.

Abs(x) == IF x < 0 THEN -x ELSE x

Max(a, b) == IF a >= b THEN a ELSE b

Dot(a, b) == a[1] * b[1] + a[2] * b[2] + a[3] * b[3]

Cross(a, b) == << a[2] * b[3] - a[3] * b[2],
                  a[3] * b[1] - a[1] * b[3],
                  a[1] * b[2] - a[2] * b[1] >>

\* numpy.array(a) - numpy.array(b)
Minus(a, b) == << a[1] - b[1], a[2] - b[2], a[3] - b[3] >>

\* numpy.allclose(a, b, rtol, atol): |a - b| <= atol + rtol * |b| in every
\* component, with rtol = 1 / rtolInv and atol given in the vectors' unit.
AllClose(a, b, rtolInv, atol) ==
    \A i \in 1..3 : rtolInv * Abs(a[i] - b[i]) <= rtolInv * atol + Abs(b[i])

\* floor(sqrt(n)) for a small n.
RECURSIVE ISqrtFrom(_, _)
ISqrtFrom(n, r) == IF (r + 1) * (r + 1) > n THEN r ELSE ISqrtFrom(n, r + 1)

\* One decimal digit more of a square root, by long-hand extraction: st.root
\* is the root so far and st.rem what is left of the radicand.
NextDigit(st) ==
    LET rem100 == st.rem * 100
        d == CHOOSE x \in 0..9 :
                /\ (20 * st.root + x) * x <= rem100
                /\ \A y \in (x + 1)..9 : (20 * st.root + y) * y > rem100
    IN  [root |-> 10 * st.root + d, rem |-> rem100 - (20 * st.root + d) * d]

\* floor(sqrt(n) * 10^5): numpy.linalg.norm of a vector whose squared length
\* is n position units, in 1e-5 position units.
SqrtFixed(n) ==
    LET r0 == ISqrtFrom(n, 0)
        s0 == [root |-> r0, rem |-> n - r0 * r0]
    IN  NextDigit(NextDigit(NextDigit(NextDigit(NextDigit(s0))))).root

\* numpy.linalg.norm(v)
Norm(v) == SqrtFixed(Dot(v, v))

\* '%.5f' % v: v, in 1e-6 mm, rounded to five decimals of a millimetre.
Format5(v) == (v + 5) \div 10

\* sorted(s) for a sequence of integers.
RECURSIVE SortedInts(_)
SortedInts(s) ==
    IF Len(s) = 0 THEN << >>
    ELSE LET m == CHOOSE i \in 1..Len(s) : \A j \in 1..Len(s) : s[i] <= s[j]
         IN  << s[m] >> \o SortedInts(SubSeq(s, 1, m - 1) \o SubSeq(s, m + 1, Len(s)))

\* numpy.percentile(a, q) for q a multiple of 10 and a not empty: linear
\* interpolation between the two order statistics around q/100 * (n - 1).
Percentile(a, q) ==
    LET s == SortedInts(a)
        n == Len(s)
        scaled == (q \div 10) * (n - 1)       \* ten times the virtual index
        lo == scaled \div 10
        frac == scaled % 10                   \* tenths past lo
        hi == IF lo + 2 <= n THEN lo + 2 ELSE n
    IN  s[lo + 1] + (frac * (s[hi] - s[lo + 1])) \div 10

---------------------------------------------------------------------------
\* Slices.

\* ImageOrientationPatient[0:3] and [3:6]
Orient1(d) == SubSeq(d.ImageOrientationPatient, 1, 3)
Orient2(d) == SubSeq(d.ImageOrientationPatient, 4, 6)

Slice(pos, orient, pixels, modality, hasType, type, timing) ==
    [ uid |-> 0,
      ImagePositionPatient |-> pos,
      ImageOrientationPatient |-> orient,
      pixel_array |-> pixels,
      Modality |-> modality,
      has_ImageType |-> hasType,
      ImageType |-> type,
      PixelSpacing |-> << 10, 10 >>,
      has_timing |-> timing ]

\* A list of distinct objects: each slice gets its place in the list as its identity.
Tagged(s) == [ i \in 1..Len(s) |-> [ s[i] EXCEPT !.uid = i ] ]

SeqsUpTo(S, n) == UNION { [ 1..k -> S ] : k \in 0..n }

OrientA  == << 1000, 0, 0, 0, 1000, 0 >>
\* within tolerance of OrientA
OrientA2 == << 1000, 1, 0, 0, 1000, 0 >>
\* within tolerance of OrientA2, not of OrientA
OrientA3 == << 1000, 2, 0, 0, 1000, 0 >>
\* oblique: its two vectors are not perpendicular
OrientT  == << 1000, 0, 0, 500, 866, 0 >>

TypeAxial == { "ORIGINAL", "PRIMARY", "AXIAL" }

Axial(z) == Slice(<< 0, 0, z >>, OrientA, z, "MR", TRUE, TypeAxial, z = 0)

---------------------------------------------------------------------------
\* The filters.

\* A dict with no key.
EmptyDict == [ k \in {} |-> k ]

\* _remove_duplicate_slices with every slice kept put at the head of the list
\* (filtered_dicoms.insert(0, dicom_)) instead of at its end.
RECURSIVE RemoveDuplicatesPrepending(_, _, _, _)
RemoveDuplicatesPrepending(dicoms, i, dicoms_dict, filtered) ==
    IF i > Len(dicoms) THEN filtered
    ELSE LET dicom_ == dicoms[i]
             key == dicom_.ImagePositionPatient
         IN  IF key \notin DOMAIN dicoms_dict
             THEN RemoveDuplicatesPrepending(dicoms, i + 1, (key :> dicom_) @@ dicoms_dict,
                                             << dicom_ >> \o filtered)
             ELSE IF dicom_.pixel_array = dicoms_dict[key].pixel_array
                  THEN RemoveDuplicatesPrepending(dicoms, i + 1, dicoms_dict, filtered)
                  ELSE RemoveDuplicatesPrepending(dicoms, i + 1, dicoms_dict,
                                                  << dicom_ >> \o filtered)

\* _remove_duplicate_slices, lines 103-115: the loop from slice i on, with
\* dicoms_dict the first slice seen at each position.
RECURSIVE RemoveDuplicatesLoop(_, _, _, _)
RemoveDuplicatesLoop(dicoms, i, dicoms_dict, filtered) ==
    IF i > Len(dicoms) THEN filtered
    ELSE LET dicom_ == dicoms[i]
             key == dicom_.ImagePositionPatient
         IN  IF key \notin DOMAIN dicoms_dict
             THEN RemoveDuplicatesLoop(dicoms, i + 1, (key :> dicom_) @@ dicoms_dict,
                                       Append(filtered, dicom_))
             ELSE IF dicom_.pixel_array = dicoms_dict[key].pixel_array
                  THEN RemoveDuplicatesLoop(dicoms, i + 1, dicoms_dict, filtered)
                  ELSE RemoveDuplicatesLoop(dicoms, i + 1, dicoms_dict,
                                            Append(filtered, dicom_))

_remove_duplicate_slices(dicoms) == RemoveDuplicatesLoop(dicoms, 1, EmptyDict, << >>)

\* 'CT' in dicom_.Modality: a substring test; of the modalities of the model
\* only "CT" contains it.
ContainsCT(modality) == modality = "CT"

\* The test of lines 125-129 for one slice.
IsLocalizerByImagetype(dicom_) ==
    \/ dicom_.has_ImageType /\ "LOCALIZER" \in dicom_.ImageType
    \/ /\ ContainsCT(dicom_.Modality)
       /\ dicom_.has_ImageType
       /\ "PROJECTION IMAGE" \in dicom_.ImageType

_remove_localizers_by_imagetype(dicoms) ==
    LET Keep(dicom_) == ~ IsLocalizerByImagetype(dicom_)
    IN  SelectSeq(dicoms, Keep)

\* The test of lines 151-153: a slice's orientation against a group's
\* representative, at rtol 0.001 and atol 0.001 (one unit of a cosine).
OrientationMatches(image_orient, orientation) ==
    /\ AllClose(SubSeq(image_orient, 1, 3), SubSeq(orientation, 1, 3), 1000, 1)
    /\ AllClose(SubSeq(image_orient, 4, 6), SubSeq(orientation, 4, 6), 1000, 1)

\* Lines 141-159: the loop from slice i on.  orientations is the list of
\* representatives in the order they were first seen, sorted_dicoms the dict
\* from a representative to its slices (the code keys it by the
\* representative's text, which is distinct for distinct representatives).
RECURSIVE GroupLoop(_, _, _, _)
GroupLoop(dicoms, i, orientations, sorted_dicoms) ==
    IF i > Len(dicoms)
    THEN [ orientations |-> orientations, sorted_dicoms |-> sorted_dicoms ]
    ELSE LET dicom_header == dicoms[i]
             image_orient_combined == dicom_header.ImageOrientationPatient
             hits == { k \in 1..Len(orientations) :
                         OrientationMatches(image_orient_combined, orientations[k]) }
         IN  IF hits # {}
             THEN LET first == CHOOSE k \in hits : \A j \in hits : k <= j
                      orientation == orientations[first]
                  IN  GroupLoop(dicoms, i + 1, orientations,
                                [ sorted_dicoms EXCEPT ![orientation] =
                                      Append(@, dicom_header) ])
             ELSE GroupLoop(dicoms, i + 1,
                            Append(orientations, image_orient_combined),
                            (image_orient_combined :> << dicom_header >>) @@ sorted_dicoms)

GroupByOrientation(dicoms) == GroupLoop(dicoms, 1, << >>, EmptyDict)

\* The orders in which a dict may hand out the keys of the set S: insertion
\* order on a recent Python, the hash order of the keys' text on an old one.
KeyOrders(S) ==
    { order \in [ 1..Cardinality(S) -> S ] :
        \A i, j \in 1..Cardinality(S) : i # j => order[i] # order[j] }

\* Lines 165-169 with the test len(...) > 4 in place of len(...) >= 4.
RECURSIVE ExtendGroupsOverFour(_, _, _)
ExtendGroupsOverFour(sorted_dicoms, order, i) ==
    IF i > Len(order) THEN << >>
    ELSE (IF Len(sorted_dicoms[order[i]]) > 4 THEN sorted_dicoms[order[i]] ELSE << >>)
         \o ExtendGroupsOverFour(sorted_dicoms, order, i + 1)

\* Lines 165-169 for one order of the keys.
RECURSIVE ExtendLargeGroups(_, _, _)
ExtendLargeGroups(sorted_dicoms, order, i) ==
    IF i > Len(order) THEN << >>
    ELSE (IF Len(sorted_dicoms[order[i]]) >= 4 THEN sorted_dicoms[order[i]] ELSE << >>)
         \o ExtendLargeGroups(sorted_dicoms, order, i + 1)

\* _remove_localizers_by_orientation: the lists it may return, one for each
\* order of the dict's keys; none when dicoms is empty (six.next raises
\* StopIteration on the empty dict).
_remove_localizers_by_orientation(dicoms) ==
    LET g == GroupByOrientation(dicoms)
        n == Len(g.orientations)
    IN  IF n > 1
        THEN { ExtendLargeGroups(g.sorted_dicoms, order, 1) :
                   order \in KeyOrders(DOMAIN g.sorted_dicoms) }
        ELSE IF n = 1 THEN { g.sorted_dicoms[g.orientations[1]] }
        ELSE {}

---------------------------------------------------------------------------
\* Slice increments, the splitter and the collaborators of common.

Position(dicom_) == dicom_.ImagePositionPatient

\* The displacement previous - current between slice i and slice i + 1.
Displacement(dicoms, i) == Minus(Position(dicoms[i]), Position(dicoms[i + 1]))

\* The test of lines 191 and 193: rtol 0.05, atol 0.1 (one position unit).
IncrementMatches(increment, current_increment) ==
    AllClose(increment, current_increment, 20, 1)

\* common.is_slice_increment_inconsistent on two slices or more: some
\* consecutive displacement does not match the first one.
is_slice_increment_inconsistent(dicoms) ==
    \E i \in 2..(Len(dicoms) - 1) :
        ~ IncrementMatches(Displacement(dicoms, 1), Displacement(dicoms, i))

\* Lines 187-198 with a new group opened as [current_group[0], dicom]: the
\* first slice of the closed group taken over, not its last.
RECURSIVE SplitLoopSharingFirstSlice(_, _, _, _, _, _)
SplitLoopSharingFirstSlice(dicoms, i, increment, max_increment, groups, current_group) ==
    IF i > Len(dicoms)
    THEN [ groups |-> Append(groups, current_group), max_slice_increment |-> max_increment ]
    ELSE LET dicom == dicoms[i]
             current_increment == Displacement(dicoms, i - 1)
             new_max == Max(max_increment, Norm(current_increment))
         IN  IF IncrementMatches(increment, current_increment)
             THEN SplitLoopSharingFirstSlice(dicoms, i + 1, increment, new_max, groups,
                                             Append(current_group, dicom))
             ELSE SplitLoopSharingFirstSlice(dicoms, i + 1, current_increment, new_max,
                                             Append(groups, current_group),
                                             << current_group[1], dicom >>)

\* Lines 187-198 with increment = current_increment moved out of the second
\* if: every displacement is compared with the one before it.
RECURSIVE SplitLoopAgainstPrevious(_, _, _, _, _, _)
SplitLoopAgainstPrevious(dicoms, i, increment, max_increment, groups, current_group) ==
    IF i > Len(dicoms)
    THEN [ groups |-> Append(groups, current_group), max_slice_increment |-> max_increment ]
    ELSE LET dicom == dicoms[i]
             current_increment == Displacement(dicoms, i - 1)
             new_max == Max(max_increment, Norm(current_increment))
         IN  IF IncrementMatches(increment, current_increment)
             THEN SplitLoopAgainstPrevious(dicoms, i + 1, current_increment, new_max, groups,
                                           Append(current_group, dicom))
             ELSE SplitLoopAgainstPrevious(dicoms, i + 1, current_increment, new_max,
                                           Append(groups, current_group),
                                           << current_group[Len(current_group)], dicom >>)

\* Lines 187-198: the loop from slice i on.
RECURSIVE SplitLoop(_, _, _, _, _, _)
SplitLoop(dicoms, i, increment, max_increment, groups, current_group) ==
    IF i > Len(dicoms)
    THEN [ groups |-> Append(groups, current_group), max_slice_increment |-> max_increment ]
    ELSE LET dicom == dicoms[i]
             current_increment == Displacement(dicoms, i - 1)
             new_max == Max(max_increment, Norm(current_increment))
         IN  IF IncrementMatches(increment, current_increment)
             THEN SplitLoop(dicoms, i + 1, increment, new_max, groups,
                            Append(current_group, dicom))
             ELSE SplitLoop(dicoms, i + 1, current_increment, new_max,
                            Append(groups, current_group),
                            << current_group[Len(current_group)], dicom >>)

\* Lines 180-198 on two slices or more.
SplitGroups(dicoms) ==
    SplitLoop(dicoms, 3, Displacement(dicoms, 1), 0, << >>, << dicoms[1], dicoms[2] >>)

\* nibabel's header.get_zooms() of the volume common.create_affine builds
\* from a run of two slices or more: the pixel spacing and the length of the
\* step from slice to slice, (last - first) / (n - 1), in 1e-5 position units.
Zooms(dicom_slices) ==
    LET n == Len(dicom_slices)
        d == Minus(Position(dicom_slices[n]), Position(dicom_slices[1]))
    IN  << dicom_slices[1].PixelSpacing[1] * 100000,
           dicom_slices[1].PixelSpacing[2] * 100000,
           Norm(d) \div (n - 1) >>

\* Line 208: numpy.linalg.norm(current_volume.header.get_zooms()).
SliceIncrementOf(dicom_slices) ==
    LET n == Len(dicom_slices)
        d == Minus(Position(dicom_slices[n]), Position(dicom_slices[1]))
        px == dicom_slices[1].PixelSpacing[1]
        py == dicom_slices[1].PixelSpacing[2]
    IN  SqrtFixed((px * px + py * py) * (n - 1) * (n - 1) + Dot(d, d)) \div (n - 1)

\* [x] * k
Repeat(x, k) == [ i \in 1..k |-> x ]

\* Line 210 over all groups: the pooled samples.
RECURSIVE PooledIncrements(_, _)
PooledIncrements(groups, k) ==
    IF k > Len(groups) THEN << >>
    ELSE Repeat(SliceIncrementOf(groups[k]), Len(groups[k]) - 1)
         \o PooledIncrements(groups, k + 1)

\* Line 209 over all groups: voxel_sizes maps the text of a group's slice
\* increment to its zooms, a later group replacing an earlier one of the same text.
VoxelSizes(groups) ==
    [ key \in { Format5(SliceIncrementOf(groups[k])) : k \in DOMAIN groups } |->
        LET same == { k \in DOMAIN groups : Format5(SliceIncrementOf(groups[k])) = key }
            last == CHOOSE k \in same : \A j \in same : j <= k
        IN  Zooms(groups[last]) ]

\* _convert_slice_incement_inconsistencies: what it computes and how it ends.
_convert_slice_incement_inconsistencies(dicoms) ==
    IF Len(dicoms) < 2
    THEN [ raised |-> "IndexError", groups |-> << >>, max_slice_increment |-> 0,
           slice_increments |-> << >>, keys |-> {}, wanted |-> 0, voxel_size |-> << >> ]
    ELSE LET s == SplitGroups(dicoms)
             slice_increments == PooledIncrements(s.groups, 1)
             voxel_sizes == VoxelSizes(s.groups)
             wanted == Format5(Percentile(slice_increments, 10))
             found == wanted \in DOMAIN voxel_sizes
         IN  [ raised |-> IF found THEN "" ELSE "KeyError",
               groups |-> s.groups,
               max_slice_increment |-> s.max_slice_increment,
               slice_increments |-> slice_increments,
               keys |-> DOMAIN voxel_sizes,
               wanted |-> wanted,
               voxel_size |-> IF found THEN voxel_sizes[wanted] ELSE << >> ]

\* common.validate_slicecount: a volume needs 4 slices.
SlicecountValid(dicoms) == Len(dicoms) >= 4

\* common.validate_orientation: every slice matches the first slice's orientation.
OrientationValid(dicoms) ==
    \A i \in DOMAIN dicoms :
        OrientationMatches(dicoms[i].ImageOrientationPatient,
                           dicoms[1].ImageOrientationPatient)

\* common.validate_orthogonal: the two orientation vectors are perpendicular
\* within 0.001.
OrthogonalValid(dicoms) ==
    \A i \in DOMAIN dicoms : Abs(Dot(Orient1(dicoms[i]), Orient2(dicoms[i]))) <= 1000

\* The key common.sort_dicoms sorts by: the position projected on the normal
\* of the slice.
SortKey(dicom_) == Dot(Cross(Orient1(dicom_), Orient2(dicom_)), Position(dicom_))

\* One slice put in its place in a sorted list, after the slices of equal key.
RECURSIVE InsertSorted(_, _)
InsertSorted(sorted, dicom_) ==
    IF Len(sorted) = 0 THEN << dicom_ >>
    ELSE IF SortKey(sorted[Len(sorted)]) <= SortKey(dicom_)
         THEN Append(sorted, dicom_)
         ELSE Append(InsertSorted(SubSeq(sorted, 1, Len(sorted) - 1), dicom_),
                     sorted[Len(sorted)])

\* common.sort_dicoms: a stable ascending sort.
RECURSIVE SortPrefix(_, _)
SortPrefix(dicoms, n) ==
    IF n = 0 THEN << >> ELSE InsertSorted(SortPrefix(dicoms, n - 1), dicoms[n])

sort_dicoms(dicoms) == SortPrefix(dicoms, Len(dicoms))

\* The maximum common.create_affine reports for the slices it is given: the
\* largest length of a consecutive displacement.
RECURSIVE MaxDisplacement(_, _)
MaxDisplacement(dicoms, i) ==
    IF i >= Len(dicoms) THEN 0
    ELSE Max(Norm(Displacement(dicoms, i)), MaxDisplacement(dicoms, i + 1))

---------------------------------------------------------------------------
\* The values of the state before anything has run.

\* No flag of dicom2nifti.settings has been read.
NoneRead == EmptyDict

\* The flag has been read and was set, or was not set.
On(flag) == flag \in DOMAIN settings /\ settings[flag]
Off(flag) == flag \in DOMAIN settings /\ ~ settings[flag]

NoImage == [ kind |-> "none", voxel_size |-> << >>, timing |-> FALSE ]

NoSplit == [ raised |-> "", groups |-> << >>, max_slice_increment |-> 0,
             slice_increments |-> << >>, keys |-> {}, wanted |-> 0, voxel_size |-> << >> ]

\* Everything but arg, dicom_input and settings.
Fresh ==
    /\ output_file = "unread"
    /\ pc = "call"
    /\ stages = << >>
    /\ error = ""
    /\ slice_increment_inconsistent = FALSE
    /\ assembled = << >>
    /\ nii_image = NoImage
    /\ max_slice_increment = 0
    /\ disk = "absent"
    /\ filtered_dicoms = << >>
    /\ split = NoSplit

---------------------------------------------------------------------------
\* The filters called on their own.

\* Slices at one position that differ in orientation only.
OrientSlices ==
    { Slice(<< 0, 0, 0 >>, o, 1, "CT", FALSE, {}, FALSE) :
          o \in { OrientA, OrientA2, OrientA3 } }

\* Slices that differ in position, pixels, modality and image type.
MixedSlices ==
    { Slice(<< 0, 0, 0 >>, OrientA, 1, "MR", TRUE, TypeAxial, FALSE),
      Slice(<< 0, 0, 0 >>, OrientA, 2, "MR", TRUE, TypeAxial, FALSE),
      Slice(<< 0, 0, 10 >>, OrientT, 1, "CT", FALSE, {}, FALSE),
      Slice(<< 0, 0, 10 >>, OrientA3, 1, "MR", TRUE, { "ORIGINAL", "LOCALIZER" }, FALSE),
      Slice(<< 0, 0, 0 >>, OrientA, 2, "CT", TRUE, { "DERIVED", "PROJECTION IMAGE" }, FALSE),
      Slice(<< 0, 0, 20 >>, OrientA, 1, "MR", TRUE, { "DERIVED", "PROJECTION IMAGE" }, FALSE) }

InitFilters ==
    /\ arg \in { Tagged(s) : s \in SeqsUpTo(OrientSlices, MaxOrientLen)
                                    \cup SeqsUpTo(MixedSlices, MaxMixedLen) }
    /\ dicom_input = arg
    /\ settings = NoneRead
    /\ Fresh

FilterFrame == UNCHANGED << settings, arg, dicom_input, output_file, stages,
                            slice_increment_inconsistent, assembled, nii_image,
                            max_slice_increment, disk, split >>

CallRemoveDuplicateSlices ==
    /\ pc = "call"
    /\ filtered_dicoms' = _remove_duplicate_slices(arg)
    /\ pc' = "_remove_duplicate_slices"
    /\ UNCHANGED error
    /\ FilterFrame

CallRemoveLocalizersByImagetype ==
    /\ pc = "call"
    /\ filtered_dicoms' = _remove_localizers_by_imagetype(arg)
    /\ pc' = "_remove_localizers_by_imagetype"
    /\ UNCHANGED error
    /\ FilterFrame

CallRemoveLocalizersByOrientation ==
    /\ pc = "call"
    /\ IF _remove_localizers_by_orientation(arg) = {}
       THEN /\ pc' = "raised"
            /\ error' = "StopIteration"
            /\ UNCHANGED filtered_dicoms
       ELSE /\ filtered_dicoms' \in _remove_localizers_by_orientation(arg)
            /\ pc' = "_remove_localizers_by_orientation"
            /\ UNCHANGED error
    /\ FilterFrame

NextFilters ==
    \/ CallRemoveDuplicateSlices
    \/ CallRemoveLocalizersByImagetype
    \/ CallRemoveLocalizersByOrientation

SpecFilters == InitFilters /\ [][NextFilters]_vars

---------------------------------------------------------------------------
\* The increment analysis and the splitter called on their own, on a sorted series.

\* The steps from one slice of a sorted series to the next.
Gaps == { << 0, 0, 10 >>, << 0, 0, 11 >>, << 0, 0, 12 >>, << 0, 0, 20 >>, << 3, 0, 10 >> }

\* The series that starts at the origin and advances by the steps of gaps.
RECURSIVE SeriesFrom(_, _, _)
SeriesFrom(pos, gaps, k) ==
    << Slice(pos, OrientA, k, "CT", TRUE, TypeAxial, FALSE) >>
        \o (IF k > Len(gaps) THEN << >>
            ELSE SeriesFrom(Minus(pos, Minus(<< 0, 0, 0 >>, gaps[k])), gaps, k + 1))

SortedSeries ==
    { << >> } \cup { SeriesFrom(<< 0, 0, 0 >>, gaps, 1) : gaps \in SeqsUpTo(Gaps, MaxSplitLen - 1) }

InitSplit ==
    /\ arg \in { Tagged(s) : s \in SortedSeries }
    /\ dicom_input = arg
    /\ settings = NoneRead
    /\ Fresh

\* common.is_slice_increment_inconsistent(arg); it reads the first two slices.
CallIsSliceIncrementInconsistent ==
    /\ pc = "call"
    /\ IF Len(arg) < 2
       THEN /\ pc' = "raised"
            /\ error' = "IndexError"
            /\ UNCHANGED slice_increment_inconsistent
       ELSE /\ pc' = "analysed"
            /\ slice_increment_inconsistent' = is_slice_increment_inconsistent(arg)
            /\ UNCHANGED error
    /\ UNCHANGED << settings, arg, dicom_input, output_file, stages, assembled,
                    nii_image, max_slice_increment, disk, filtered_dicoms, split >>

\* _convert_slice_incement_inconsistencies(arg)
CallConvertSliceIncrementInconsistencies ==
    /\ pc = "analysed"
    /\ split' = _convert_slice_incement_inconsistencies(arg)
    /\ error' = split'.raised
    /\ pc' = "_convert_slice_incement_inconsistencies"
    /\ UNCHANGED << settings, arg, dicom_input, output_file, stages,
                    slice_increment_inconsistent, assembled, nii_image,
                    max_slice_increment, disk, filtered_dicoms >>

NextSplit ==
    \/ CallIsSliceIncrementInconsistent
    \/ CallConvertSliceIncrementInconsistencies

SpecSplit == InitSplit /\ [][NextSplit]_vars

---------------------------------------------------------------------------
\* dicom_to_nifti.

\* The slices a series handed to dicom_to_nifti is made of: five axial slices
\* 1 mm apart, an oblique slice and a localizer.
PipelineSlices ==
    { Axial(0), Axial(10), Axial(20), Axial(30), Axial(40),
      Slice(<< 0, 0, 10 >>, OrientT, 7, "CT", FALSE, {}, FALSE),
      Slice(<< 0, 0, 0 >>, OrientA, 8, "MR", TRUE, { "ORIGINAL", "LOCALIZER" }, FALSE) }

Init ==
    /\ arg \in { Tagged(s) : s \in SeqsUpTo(PipelineSlices, MaxLen) }
    /\ dicom_input = arg
    /\ settings = NoneRead
    /\ Fresh

\* dicom_to_nifti on series of axial slices only.
InitAxial ==
    /\ arg \in { Tagged(s) : s \in SeqsUpTo({ Axial(0), Axial(10), Axial(20),
                                              Axial(30), Axial(40) }, MaxLen) }
    /\ dicom_input = arg
    /\ settings = NoneRead
    /\ Fresh

\* What no step of dicom_to_nifti touches.
Frame == UNCHANGED << arg, filtered_dicoms >>

\* raise: the call ends with the exception and returns nothing.
Raise(code) ==
    /\ pc' = "failed"
    /\ error' = code

\* settings.<flag> is read and has the value on.  The model fixes a flag when
\* the code reads it, which is once in a call.
ReadSetting(flag, on) == settings' = (flag :> on) @@ settings

\* Lines 38-39 with len(dicom_input) < 0 in place of <= 0.
CheckInputBelowZero ==
    /\ pc = "call"
    /\ IF Len(dicom_input) < 0
       THEN Raise("NO_DICOM_FILES_FOUND")
       ELSE pc' = "remove_duplicates" /\ UNCHANGED error
    /\ stages' = Append(stages, "check_input")
    /\ UNCHANGED << settings, dicom_input, output_file, slice_increment_inconsistent,
                    assembled, nii_image, max_slice_increment, disk, split >>
    /\ Frame

\* Lines 38-39.
CheckInput ==
    /\ pc = "call"
    /\ IF Len(dicom_input) <= 0
       THEN Raise("NO_DICOM_FILES_FOUND")
       ELSE pc' = "remove_duplicates" /\ UNCHANGED error
    /\ stages' = Append(stages, "check_input")
    /\ UNCHANGED << settings, dicom_input, output_file, slice_increment_inconsistent,
                    assembled, nii_image, max_slice_increment, disk, split >>
    /\ Frame

\* Line 42.
RemoveDuplicateSlices ==
    /\ pc = "remove_duplicates"
    /\ dicom_input' = _remove_duplicate_slices(dicom_input)
    /\ pc' = "remove_localizers"
    /\ stages' = Append(stages, "_remove_duplicate_slices")
    /\ UNCHANGED << settings, output_file, error, slice_increment_inconsistent,
                    assembled, nii_image, max_slice_increment, disk, split >>
    /\ Frame

\* Line 45.
RemoveLocalizersByImagetype ==
    /\ pc = "remove_localizers"
    /\ dicom_input' = _remove_localizers_by_imagetype(dicom_input)
    /\ pc' = "slicecount"
    /\ stages' = Append(stages, "_remove_localizers_by_imagetype")
    /\ UNCHANGED << settings, output_file, error, slice_increment_inconsistent,
                    assembled, nii_image, max_slice_increment, disk, split >>
    /\ Frame

\* Lines 46-51.
SlicecountStage ==
    /\ pc = "slicecount"
    /\ \E validate_slicecount \in BOOLEAN :
        /\ ReadSetting("validate_slicecount", validate_slicecount)
        /\ IF validate_slicecount
           THEN /\ stages' = Append(stages, "validate_slicecount")
                /\ IF _remove_localizers_by_orientation(dicom_input) = {}
                   THEN Raise("StopIteration") /\ UNCHANGED dicom_input
                   ELSE \E out \in _remove_localizers_by_orientation(dicom_input) :
                            /\ dicom_input' = out
                            /\ IF SlicecountValid(out)
                               THEN pc' = "orientation" /\ UNCHANGED error
                               ELSE Raise("TOO_FEW_SLICES/LOCALIZER")
           ELSE /\ pc' = "orientation"
                /\ UNCHANGED << stages, dicom_input, error >>
    /\ UNCHANGED << output_file, slice_increment_inconsistent, assembled,
                    nii_image, max_slice_increment, disk, split >>
    /\ Frame

\* Lines 52-54.
ValidateOrientation ==
    /\ pc = "orientation"
    /\ \E validate_orientation \in BOOLEAN :
        /\ ReadSetting("validate_orientation", validate_orientation)
        /\ IF validate_orientation
           THEN /\ stages' = Append(stages, "validate_orientation")
                /\ IF OrientationValid(dicom_input)
                   THEN pc' = "orthogonal" /\ UNCHANGED error
                   ELSE Raise("IMAGE_ORIENTATION_INCONSISTENT")
           ELSE pc' = "orthogonal" /\ UNCHANGED << stages, error >>
    /\ UNCHANGED << dicom_input, output_file, slice_increment_inconsistent, assembled,
                    nii_image, max_slice_increment, disk, split >>
    /\ Frame

\* Lines 55-57.
ValidateOrthogonal ==
    /\ pc = "orthogonal"
    /\ \E validate_orthogonal \in BOOLEAN :
        /\ ReadSetting("validate_orthogonal", validate_orthogonal)
        /\ IF validate_orthogonal
           THEN /\ stages' = Append(stages, "validate_orthogonal")
                /\ IF OrthogonalValid(dicom_input)
                   THEN pc' = "sort" /\ UNCHANGED error
                   ELSE Raise("NON_CUBICAL_IMAGE/GANTRY_TILT")
           ELSE pc' = "sort" /\ UNCHANGED << stages, error >>
    /\ UNCHANGED << dicom_input, output_file, slice_increment_inconsistent, assembled,
                    nii_image, max_slice_increment, disk, split >>
    /\ Frame

\* Line 60.
SortDicoms ==
    /\ pc = "sort"
    /\ dicom_input' = sort_dicoms(dicom_input)
    /\ pc' = "increment"
    /\ stages' = Append(stages, "sort_dicoms")
    /\ UNCHANGED << settings, output_file, error, slice_increment_inconsistent,
                    assembled, nii_image, max_slice_increment, disk, split >>
    /\ Frame

\* Lines 62-68.  Either function of common reads the first two slices.
SliceIncrementStage ==
    /\ pc = "increment"
    /\ \E validate_slice_increment \in BOOLEAN :
        /\ ReadSetting("validate_slice_increment", validate_slice_increment)
        /\ stages' = Append(stages, IF validate_slice_increment
                                    THEN "validate_slice_increment"
                                    ELSE "is_slice_increment_inconsistent")
        /\ IF Len(dicom_input) < 2
           THEN Raise("IndexError") /\ UNCHANGED slice_increment_inconsistent
           ELSE IF validate_slice_increment
                THEN /\ UNCHANGED slice_increment_inconsistent
                     /\ IF is_slice_increment_inconsistent(dicom_input)
                        THEN Raise("SLICE_INCREMENT_INCONSISTENT")
                        ELSE pc' = "convert" /\ UNCHANGED error
                ELSE /\ slice_increment_inconsistent'
                            = is_slice_increment_inconsistent(dicom_input)
                     /\ pc' = "convert"
                     /\ UNCHANGED error
    /\ UNCHANGED << dicom_input, output_file, assembled, nii_image,
                    max_slice_increment, disk, split >>
    /\ Frame

\* Line 71 without "and settings.resample".
ConversionPathIgnoringResample(inconsistent, resample) ==
    IF inconsistent THEN "split" ELSE "direct"

\* Line 71 with "and not settings.resample".
ConversionPathResampleNegated(inconsistent, resample) ==
    IF inconsistent /\ ~ resample THEN "split" ELSE "direct"

\* Line 71: the branch taken, as the kind of volume it builds.  settings.resample
\* is read only when the local flag is set (and short-circuits).
ConversionPath(inconsistent, resample) ==
    IF inconsistent /\ resample THEN "split" ELSE "direct"

\* Lines 71-81.
Convert ==
    /\ pc = "convert"
    /\ stages' = Append(stages, "convert")
    /\ \E resample \in (IF slice_increment_inconsistent THEN BOOLEAN ELSE { FALSE }) :
        /\ IF slice_increment_inconsistent
           THEN ReadSetting("resample", resample)
           ELSE UNCHANGED settings
        /\ IF ConversionPath(slice_increment_inconsistent, resample) = "split"
           THEN /\ split' = _convert_slice_incement_inconsistencies(dicom_input)
                /\ assembled' = split'.groups
                /\ IF split'.raised # ""
                   THEN Raise(split'.raised) /\ UNCHANGED << nii_image, max_slice_increment >>
                   ELSE /\ nii_image' = [ kind |-> "split", voxel_size |-> split'.voxel_size,
                                          timing |-> FALSE ]
                        /\ max_slice_increment' = split'.max_slice_increment
                        /\ pc' = "finish"
                        /\ UNCHANGED error
           ELSE /\ assembled' = << dicom_input >>
                /\ nii_image' = [ kind |-> "direct", voxel_size |-> Zooms(dicom_input),
                                  timing |-> FALSE ]
                /\ max_slice_increment' = MaxDisplacement(dicom_input, 1)
                /\ pc' = "finish"
                /\ UNCHANGED << error, split >>
    /\ UNCHANGED << dicom_input, output_file, slice_increment_inconsistent, disk >>
    /\ Frame

\* Lines 83-94: the timing values, the file, the return.
Finish ==
    /\ pc = "finish"
    /\ stages' = Append(stages, "finish")
    /\ nii_image' = [ nii_image EXCEPT !.timing = dicom_input[1].has_timing ]
    /\ \E file \in { "None", "out.nii" } :
           /\ output_file' = file
           /\ disk' = IF file # "None" THEN "written" ELSE disk
    /\ pc' = "done"
    /\ UNCHANGED << settings, dicom_input, error, slice_increment_inconsistent,
                    assembled, max_slice_increment, split >>
    /\ Frame

Next ==
    \/ CheckInput
    \/ RemoveDuplicateSlices
    \/ RemoveLocalizersByImagetype
    \/ SlicecountStage
    \/ ValidateOrientation
    \/ ValidateOrthogonal
    \/ SortDicoms
    \/ SliceIncrementStage
    \/ Convert
    \/ Finish

Spec == Init /\ [][Next]_vars

SpecAxial == InitAxial /\ [][Next]_vars

---------------------------------------------------------------------------
\* Properties of the filters (checked under SpecFilters).

\* The identities of the slices of a list.
Uids(dicoms) == { dicoms[k].uid : k \in DOMAIN dicoms }

\* The list keeps the order its slices had in the list they were taken from.
InInputOrder(dicoms) ==
    \A p, q \in DOMAIN dicoms : p < q => dicoms[p].uid < dicoms[q].uid

SamePositionAndPixels(a, b) ==
    /\ a.ImagePositionPatient = b.ImagePositionPatient
    /\ a.pixel_array = b.pixel_array

\* The greedy orientation groups of the first n slices of dicoms: for each
\* slice the place of its group's representative.  A slice joins the group of
\* the first representative it matches and opens a group when it matches none.
RECURSIVE GroupMap(_, _)
GroupMap(dicoms, n) ==
    IF n = 0 THEN << >>
    ELSE LET before == GroupMap(dicoms, n - 1)
             cands == { r \in { before[k] : k \in 1..(n - 1) } :
                          OrientationMatches(dicoms[n].ImageOrientationPatient,
                                             dicoms[r].ImageOrientationPatient) }
         IN  Append(before, IF cands = {} THEN n
                            ELSE CHOOSE r \in cands : \A c \in cands : r <= c)

Groups(dicoms) == GroupMap(dicoms, Len(dicoms))

\* How many groups the map g tells apart.
GroupCount(g) == Cardinality({ g[i] : i \in DOMAIN g })

\* How many slices the group of slice i holds.
GroupSize(g, i) == Cardinality({ j \in DOMAIN g : g[j] = g[i] })

\* C4 (as claimed): _remove_duplicate_slices discards a slice exactly when a
\* prior slice of the input has its position and its pixels, so no two slices
\* of the output share position and pixels.
C4_NoDuplicateLeft ==
    pc = "_remove_duplicate_slices" =>
        /\ \A i \in DOMAIN arg :
               (i \notin Uids(filtered_dicoms))
                   <=> (\E j \in 1..(i - 1) : SamePositionAndPixels(arg[i], arg[j]))
        /\ \A p, q \in DOMAIN filtered_dicoms :
               p # q => ~ SamePositionAndPixels(filtered_dicoms[p], filtered_dicoms[q])

C9_AllFiltersKeepOrder ==
    pc \in { "_remove_duplicate_slices", "_remove_localizers_by_imagetype",
             "_remove_localizers_by_orientation" }
        => /\ InInputOrder(filtered_dicoms)
           /\ \A k \in DOMAIN filtered_dicoms :
                  filtered_dicoms[k] = arg[filtered_dicoms[k].uid]

\* C9 (amended): the outputs of _remove_duplicate_slices and
\* _remove_localizers_by_imagetype are subsequences of the input; the output
\* of _remove_localizers_by_orientation is the input when one group results,
\* and otherwise holds slices of the input, each group's slices next to each
\* other and in their input order.
C9_FiltersKeepOrderWithinGroups ==
    LET g == Groups(arg)
        out == filtered_dicoms
    IN  /\ pc \in { "_remove_duplicate_slices", "_remove_localizers_by_imagetype" }
               => /\ InInputOrder(out)
                  /\ \A k \in DOMAIN out : out[k] = arg[out[k].uid]
        /\ pc = "_remove_localizers_by_orientation"
               => /\ \A k \in DOMAIN out : out[k] = arg[out[k].uid]
                  /\ GroupCount(g) = 1 => out = arg
                  /\ \A p, q \in DOMAIN out :
                         (p < q /\ g[out[p].uid] = g[out[q].uid])
                             => /\ out[p].uid < out[q].uid
                                /\ \A m \in p..q : g[out[m].uid] = g[out[p].uid]

\* C9's case: _remove_localizers_by_orientation has kept two groups whose
\* slices are interleaved in the input.
C9_Witness ==
    /\ pc = "_remove_localizers_by_orientation"
    /\ Len(filtered_dicoms) = Len(arg)
    /\ LET g == Groups(arg)
       IN  /\ GroupCount(g) > 1
           /\ \E i, j, k \in DOMAIN arg :
                  i < j /\ j < k /\ g[i] = g[k] /\ g[i] # g[j]

---------------------------------------------------------------------------
\* Properties of the splitter (checked under SpecSplit).

\* The runs joined in order, a boundary slice that two runs share taken once.
RECURSIVE JoinRuns(_, _)
JoinRuns(groups, k) ==
    IF k > Len(groups) THEN << >>
    ELSE (IF k = 1 THEN groups[k] ELSE Tail(groups[k])) \o JoinRuns(groups, k + 1)

\* The third coordinates of the slices of each run.
RunHeights(groups) ==
    [ k \in DOMAIN groups |->
        [ i \in DOMAIN groups[k] |-> Position(groups[k][i])[3] ] ]

\* C6: the runs the splitter builds from a sorted series of 2 slices or more
\* hold at least 2 slices each, every displacement inside a run matches the
\* run's first displacement, each run ends with the slice the next run starts
\* with, and the runs joined give the series back.
C6_RunsPartitionSeries ==
    pc = "_convert_slice_incement_inconsistencies" =>
        LET groups == split.groups
        IN  /\ Len(groups) >= 1
            /\ \A k \in DOMAIN groups :
                   /\ Len(groups[k]) >= 2
                   /\ \A i \in 1..(Len(groups[k]) - 1) :
                          IncrementMatches(Displacement(groups[k], 1),
                                           Displacement(groups[k], i))
            /\ \A k \in 1..(Len(groups) - 1) :
                   groups[k][Len(groups[k])] = groups[k + 1][1]
            /\ JoinRuns(groups, 1) = arg

\* C6's case: the series at 0, 1, 2, 4, 5 mm has been split in [0,1,2], [2,4], [4,5].
C6_Witness ==
    /\ pc = "_convert_slice_incement_inconsistencies"
    /\ RunHeights(split.groups) = << << 0, 10, 20 >>, << 20, 40 >>, << 40, 50 >> >>

\* C8: the splitter builds one run, the whole series, exactly when the
\* series is consistent (every displacement matches the first); so a series
\* found inconsistent has 3 slices or more and is split in 2 runs or more.
C8_OneRunIffConsistent ==
    pc = "_convert_slice_incement_inconsistencies" =>
        LET consistent ==
                \A i \in 1..(Len(arg) - 1) :
                    IncrementMatches(Displacement(arg, 1), Displacement(arg, i))
        IN  /\ (Len(split.groups) = 1) <=> consistent
            /\ Len(split.groups) = 1 => split.groups[1] = arg
            /\ slice_increment_inconsistent <=> ~ consistent
            /\ slice_increment_inconsistent
                   => Len(arg) >= 3 /\ Len(split.groups) >= 2

\* C8's case: a series whose displacements drift within tolerance of the
\* first one, 1.0 then 1.1 mm, stays one run.
C8_Witness ==
    /\ pc = "_convert_slice_incement_inconsistencies"
    /\ Len(arg) >= 3
    /\ Len(split.groups) = 1
    /\ \E i \in 2..(Len(arg) - 1) : Displacement(arg, i) # Displacement(arg, 1)

---------------------------------------------------------------------------
\* Properties of dicom_to_nifti (checked under Spec).

Ran(stage) == \E k \in DOMAIN stages : stages[k] = stage

\* All slices of the run match the orientation of one of them.
SingleOrientation(run) ==
    run = << >> \/
    \E r \in DOMAIN run : \A i \in DOMAIN run :
        OrientationMatches(run[i].ImageOrientationPatient, run[r].ImageOrientationPatient)

\* All consecutive displacements of the run match one of them.
SingleSpacing(run) ==
    Len(run) < 2 \/
    \E r \in 1..(Len(run) - 1) : \A i \in 1..(Len(run) - 1) :
        IncrementMatches(Displacement(run, r), Displacement(run, i))

\* C1: _convert_slice_incement_inconsistencies is called exactly when
\* validate_slice_increment is off, the sorted series is inconsistent and
\* resample is on; every other run that gets through assembles the whole
\* sorted series; with validate_slice_increment on, an inconsistent series
\* fails and nothing is assembled.
C1_PathSelection ==
    /\ Ran("convert") =>
           ((split # NoSplit) <=> (/\ Off("validate_slice_increment")
                                   /\ is_slice_increment_inconsistent(dicom_input)
                                   /\ On("resample")))
    /\ ~ Ran("convert") => split = NoSplit
    /\ (pc \in { "finish", "done" } /\ split = NoSplit)
           => /\ nii_image.kind = "direct"
              /\ assembled = << dicom_input >>
              /\ dicom_input = sort_dicoms(dicom_input)
    /\ (pc \in { "finish", "done" } /\ split # NoSplit)
           => /\ nii_image.kind = "split"
              /\ assembled = split.groups
    /\ (/\ Ran("validate_slice_increment")
        /\ Len(dicom_input) >= 2
        /\ is_slice_increment_inconsistent(dicom_input))
           => /\ pc = "failed"
              /\ error = "SLICE_INCREMENT_INCONSISTENT"
              /\ assembled = << >>
              /\ split = NoSplit
              /\ nii_image = NoImage

\* C1's case: a call that took the split-and-resample path and returned.
C1_Witness ==
    /\ pc = "done"
    /\ nii_image.kind = "split"
    /\ Len(assembled) >= 2

\* C2: a call that fails returns no volume and writes no file; an empty input
\* fails with NO_DICOM_FILES_FOUND before any filter runs; a check that is on
\* and violated stops the call; the file is written only by a call that is
\* done, with its volume built and every check that is on passed.
C2_FailureLeavesNoOutput ==
    /\ pc = "failed"
           => /\ disk = "absent"
              /\ nii_image = NoImage
              /\ output_file = "unread"
              /\ error # ""
    /\ (Len(arg) = 0 /\ pc # "call")
           => /\ pc = "failed"
              /\ error = "NO_DICOM_FILES_FOUND"
              /\ stages = << "check_input" >>
    /\ (Ran("validate_slicecount") /\ ~ SlicecountValid(dicom_input)) => pc = "failed"
    /\ (Ran("validate_orientation") /\ ~ SingleOrientation(dicom_input)) => pc = "failed"
    /\ (Ran("validate_orthogonal") /\ ~ OrthogonalValid(dicom_input)) => pc = "failed"
    /\ (/\ Ran("validate_slice_increment")
        /\ Len(dicom_input) >= 2
        /\ is_slice_increment_inconsistent(dicom_input)) => pc = "failed"
    /\ disk = "written"
           => /\ pc = "done"
              /\ output_file = "out.nii"
              /\ nii_image.kind \in { "direct", "split" }
              /\ assembled # << >>
              /\ On("validate_slicecount") => Ran("validate_slicecount")
              /\ On("validate_orientation") => Ran("validate_orientation")
              /\ On("validate_orthogonal") => Ran("validate_orthogonal")
              /\ On("validate_slice_increment") => Ran("validate_slice_increment")
              /\ { "validate_slicecount", "validate_orientation",
                   "validate_orthogonal", "validate_slice_increment" } \subseteq DOMAIN settings

\* C2's case: a call that got as far as the sorted series and was stopped by
\* the slice increment check.
C2_Witness ==
    /\ pc = "failed"
    /\ error = "SLICE_INCREMENT_INCONSISTENT"
    /\ Ran("_remove_duplicate_slices")
    /\ Ran("sort_dicoms")
    /\ disk = "absent"

\* C3 (as claimed): whatever the flags, every run handed to the assembler
\* has a single orientation and a single spacing.
C3_EveryRunUniform ==
    \A k \in DOMAIN assembled :
        SingleOrientation(assembled[k]) /\ SingleSpacing(assembled[k])

\* C3 (amended): every run handed to the assembler has a single orientation
\* when validate_orientation is on, and a single spacing unless the series
\* was found inconsistent with validate_slice_increment and resample both off.
C3_RunsUniformWhenChecked ==
    \A k \in DOMAIN assembled :
        /\ On("validate_orientation") => SingleOrientation(assembled[k])
        /\ ~ (slice_increment_inconsistent /\ Off("resample"))
               => SingleSpacing(assembled[k])

\* C3's case: with validate_orientation on, an inconsistent series has been
\* split and its runs handed to the assembler.
C3_Witness ==
    /\ On("validate_orientation")
    /\ On("resample")
    /\ Len(assembled) >= 2

\* C7 (as claimed): the maximum the split-and-resample path returns is the
\* largest length of a consecutive displacement of the sorted series, the
\* first one included.
C7_MaxOverAllDisplacements ==
    (pc \in { "finish", "done" } /\ nii_image.kind = "split")
        => max_slice_increment = MaxDisplacement(dicom_input, 1)

\* C10 (as claimed): on the split-and-resample path the text of the 10th
\* percentile of the pooled increments is the text of some run's increment,
\* so the lookup of the target voxel size succeeds.
C10_PercentileIsARunsIncrement ==
    split # NoSplit => (split.wanted \in split.keys /\ error # "KeyError")

====
